---------------------------- MODULE Spec2Model ----------------------------
(***************************************************************************)
(* Circle-collision simulation of avsecam/GDEV41-HW4: the three programs   *)
(* main.cpp (all pairs), quadtree.cpp (quadtree broad phase) and           *)
(* unigrid.cpp (uniform-grid broad phase).  The variable `variant` says    *)
(* which of the three programs a behaviour is a run of.                    *)
(*                                                                         *)
(* Units.  The programs compute in float.  The model computes in integers: *)
(*   - a velocity is a whole number of pixels per second;                  *)
(*   - a position is a whole number of 1/TARGET_FPS pixels, so that        *)
(*     position + velocity * TIMESTEP is position + velocity, exactly;     *)
(*   - a radius is a whole number of pixels (int in the source), and       *)
(*     Px(r) is the same length in position units;                         *)
(*   - a quotient that is not a whole number of pixels per second is       *)
(*     rounded toward zero (float rounds it to about 7 digits).            *)
(***************************************************************************)
EXTENDS Integers, Sequences, FiniteSets, TLC

VARIABLES
    variant,      \* "main" | "quadtree" | "unigrid": the program that runs
    circles,      \* the body collection (std::vector of Circle)
    objects,      \* quadtree.cpp: node |-> its non-empty Quad::objects
    cells,        \* unigrid.cpp: <<row, col>> |-> its non-empty Cell::objects
    accumulator,  \* main(): float accumulator, in half timesteps
    pc,           \* main(): where the frame loop stands
    cursor,       \* main(): position of the running for-loop / traversal
    steps,        \* number of fixed steps completed so far
    counters,     \* main(): the spawn counters
    log,          \* history of the fixed step in progress (auxiliary)
    frameStart    \* the frame in progress as it entered the loop (auxiliary)

vars == <<variant, circles, objects, cells, accumulator, pc, cursor, steps,
          counters, log, frameStart>>

---------------------------------------------------------------------------
(* Program constants *)

WINDOW_WIDTH == 1280
WINDOW_HEIGHT == 720
TARGET_FPS == 60
VELOCITY_THRESHOLD == 5
SMALL_CIRCLE_RADIUS_MIN == 5
SMALL_CIRCLE_RADIUS_MAX == 10
SMALL_CIRCLE_MASS == 1
BIG_CIRCLE_RADIUS == 25

CIRCLE_VELOCITY_MIN == 5

SMALL_CIRCLES_TO_SPAWN_SIMULTANEOUSLY == 25

NUMBER_OF_PRESSES_UNTIL_BIG_CIRCLE_SPAWNS == 10
BIG_CIRCLE_MASS == 10
MAX_DEPTH == 4
GRID_SIZE == 60

\* const float TIMESTEP(1.0f / TARGET_FPS), in units of half a timestep
TIMESTEP == 2

\* ELASTICITY as the fraction ElasticityNum / ElasticityDen:
\* 0.5f in main.cpp, 1.0f in quadtree.cpp and unigrid.cpp
ElasticityNum(v) == IF v = "main" THEN 1 ELSE 2

ElasticityDen == 2

---------------------------------------------------------------------------
(* Bounds of the model *)

\* number of bodies in the collection
NumCircles == 2

\* fixed steps a behaviour runs
MaxSteps == 2

\* fixed steps a behaviour of SpecSqueeze runs
SqueezeSteps == 4

\* calls of Circle::update on the one body of the runs of update alone
MaxUpdates == 2

\* spawn requests in the runs of the spawn handler alone
MaxRequests == 21

---------------------------------------------------------------------------
(* Arithmetic helpers *)

Variants == {"main", "quadtree", "unigrid"}

Null == <<"null">>

\* a length of n pixels in position units
Px(n) == n * TARGET_FPS

Abs(n) == IF n < 0 THEN -n ELSE n

Sign(n) == IF n < 0 THEN -1 ELSE IF n > 0 THEN 1 ELSE 0

Max(a, b) == IF a >= b THEN a ELSE b

\* <<quotient, remainder>> of a*b by c for 0 <= a < c, 0 <= b, without
\* forming the product a*b (TLC's integers are 32 bits wide)
RECURSIVE MulDivQR(_, _, _)
MulDivQR(a, b, c) ==
    IF b = 0 THEN <<0, 0>>
    ELSE LET h == MulDivQR(a, b \div 2, c)
             t == 2 * h[2] + (b % 2) * a
         IN  <<2 * h[1] + (t \div c), t % c>>

\* a*b/c rounded toward zero, c > 0
MulDiv(a, b, c) ==
    LET aa == Abs(a)
        bb == Abs(b)
        q  == (aa \div c) * bb + MulDivQR(aa % c, bb, c)[1]
    IN  Sign(a) * Sign(b) * q

\* a/b rounded toward zero, b > 0
TruncDiv(a, b) == Sign(a) * (Abs(a) \div b)

\* floor(sqrt(n)) for lo*lo <= n < (hi+1)*(hi+1)
RECURSIVE ISqrtIn(_, _, _)
ISqrtIn(n, lo, hi) ==
    IF lo >= hi THEN lo
    ELSE LET mid == (lo + hi + 1) \div 2
         IN  IF mid * mid <= n THEN ISqrtIn(n, mid, hi)
             ELSE ISqrtIn(n, lo, mid - 1)

---------------------------------------------------------------------------
(* raymath's Vector2, as pairs <<x, y>> *)

Vector2Add(a, b) == <<a[1] + b[1], a[2] + b[2]>>

Vector2Subtract(a, b) == <<a[1] - b[1], a[2] - b[2]>>

Vector2AddValue(a, k) == <<a[1] + k, a[2] + k>>

Vector2SubtractValue(a, k) == <<a[1] - k, a[2] - k>>

Vector2DotProduct(a, b) == a[1] * b[1] + a[2] * b[2]

---------------------------------------------------------------------------
(* struct Circle *)

\* A body.  radius and mass are the int fields; quad is the back-pointer of
\* quadtree.cpp (a node, or Null for nullptr); gridPositions is the vector of
\* unigrid.cpp.  The fields a program does not have keep their initial value.
Circle(r, m, pos, vel) ==
    [radius |-> r, mass |-> m, acceleration |-> <<0, 0>>, velocity |-> vel,
     position |-> pos, oldPosition |-> pos, quad |-> Null,
     gridPositions |-> <<>>]

\* Circle::convertToGridPosition: floor(position / GRID_SIZE) on both axes
ConvertToGridPosition(p) == <<p[1] \div Px(GRID_SIZE), p[2] \div Px(GRID_SIZE)>>

\* a registration in the cell of the centre only
GridPositionOfCentre(c) == <<ConvertToGridPosition(c.position)>>

\* Circle::refreshGridPositions: the cells between the bottom-left and the
\* top-right corner of the AABB, column by column, each from the bottom up
RefreshGridPositions(c) ==
    LET min == <<c.position[1] - Px(c.radius), c.position[2] + Px(c.radius)>>
        max == <<c.position[1] + Px(c.radius), c.position[2] - Px(c.radius)>>
        minGridPosition == ConvertToGridPosition(min)
        maxGridPosition == ConvertToGridPosition(max)
        ny == minGridPosition[2] - maxGridPosition[2] + 1
        nx == maxGridPosition[1] - minGridPosition[1] + 1
    IN  IF minGridPosition = maxGridPosition THEN <<minGridPosition>>
        ELSE [k \in 1..(nx * ny) |->
                <<minGridPosition[1] + ((k - 1) \div ny),
                  minGridPosition[2] - ((k - 1) % ny)>>]

\* Circle::setPosition (unigrid.cpp); the other programs assign position
SetPosition(v, c, newPosition) ==
    LET moved == [c EXCEPT !.position = newPosition]
    IN  IF v = "unigrid"
        THEN [moved EXCEPT !.gridPositions = RefreshGridPositions(moved)]
        ELSE moved

\* a deadzone that takes in the threshold itself
DeadzoneAtOrBelow(x) == IF Abs(x) <= VELOCITY_THRESHOLD THEN 0 ELSE x

\* the velocity deadzone of Circle::update
Deadzone(x) == IF Abs(x) < VELOCITY_THRESHOLD THEN 0 ELSE x

\* Vector2Scale(force, 1 / mass): 1 / mass divides two ints
ForceOverMass(force, mass) ==
    <<force[1] * (1 \div mass), force[2] * (1 \div mass)>>

\* Circle::update(force): integrate one TIMESTEP.  unigrid.cpp adds
\* velocity * FRICTION to the acceleration, with FRICTION = -0.0f.
CircleUpdate(v, c, force) ==
    LET acc  == ForceOverMass(force, c.mass)
        vel0 == <<c.velocity[1] + TruncDiv(acc[1], TARGET_FPS),
                  c.velocity[2] + TruncDiv(acc[2], TARGET_FPS)>>
        vel  == <<Deadzone(vel0[1]), Deadzone(vel0[2])>>
        c1   == [c EXCEPT !.acceleration = acc, !.velocity = vel,
                          !.oldPosition = IF v = "main" THEN @ ELSE c.position]
        c2   == SetPosition(v, c1, Vector2Add(c.position, vel))
    IN  IF v = "quadtree" THEN [c2 EXCEPT !.quad = Null] ELSE c2

\* the two tests of Circle::handleEdgeCollision
CircleIsOutOfBoundsX(c) ==
    \/ c.position[1] >= Px(WINDOW_WIDTH - c.radius)
    \/ c.position[1] <= Px(c.radius)

CircleIsOutOfBoundsY(c) ==
    \/ c.position[2] >= Px(WINDOW_HEIGHT - c.radius)
    \/ c.position[2] <= Px(c.radius)

\* Circle::handleEdgeCollision: quadtree.cpp and unigrid.cpp put the body
\* back at oldPosition, main.cpp only turns the velocity around
HandleEdgeCollision(v, c) ==
    LET outX == CircleIsOutOfBoundsX(c)
        outY == CircleIsOutOfBoundsY(c)
        back == IF (outX \/ outY) /\ v # "main"
                THEN SetPosition(v, c, c.oldPosition) ELSE c
    IN  [back EXCEPT !.velocity =
            <<IF outX THEN -c.velocity[1] ELSE c.velocity[1],
              IF outY THEN -c.velocity[2] ELSE c.velocity[2]>>]

\* the narrow-phase test sumOfRadii >= distanceBetweenCenters, that is
\* (a.radius + b.radius)^2 >= Vector2DistanceSqr(a.position, b.position);
\* centres further apart than the radii on one axis are decided without the
\* squares, which TLC's 32-bit integers could not hold
CirclesCollide(a, b) ==
    LET sum == Px(a.radius + b.radius)
        dx  == Abs(a.position[1] - b.position[1])
        dy  == Abs(a.position[2] - b.position[2])
    IN  dx <= sum /\ dy <= sum /\ sum * sum >= dx * dx + dy * dy

\* Circle::getImpulse as the fraction ImpulseNum / ImpulseDen:
\* -((1 + e) * dot(rv, n)) / (dot(n, n) * (1/ma + 1/mb))
ImpulseNum(v, a, b, relativeVelocity, collisionNormal) ==
    -((ElasticityDen + ElasticityNum(v))
        * Vector2DotProduct(relativeVelocity, collisionNormal)
        * a.mass * b.mass)

ImpulseDen(a, b, collisionNormal) ==
    ElasticityDen * Vector2DotProduct(collisionNormal, collisionNormal)
        * (a.mass + b.mass)

\* Vector2Scale(Vector2Scale(collisionNormal, 1.0f / mass), impulse); mass
\* is one of the two masses, which both divide ImpulseNum
ImpulseStep(collisionNormal, mass, num, den) ==
    <<MulDiv(collisionNormal[1], num \div mass, den),
      MulDiv(collisionNormal[2], num \div mass, den)>>

\* Vector2Scale(Vector2Normalize(n), 0.5f): half a pixel along n, and the
\* zero vector for n = 0 (raymath normalises the zero vector to itself)
HalfPixelAlong(n) ==
    LET len == ISqrtIn(Vector2DotProduct(n, n), 0, Abs(n[1]) + Abs(n[2]))
    IN  IF len = 0 THEN <<0, 0>>
        ELSE <<TruncDiv(n[1] * (TARGET_FPS \div 2), len),
               TruncDiv(n[2] * (TARGET_FPS \div 2), len)>>

---------------------------------------------------------------------------
(* struct Quad (quadtree.cpp) *)

\* The tree is built once, by the constructors, down to MAX_DEPTH.  A node
\* is named by its path from the root: <<>> is the root, and a path is
\* extended by the QuadPosition of the child (0 topLeft, 1 topRight,
\* 2 bottomLeft, 3 bottomRight).
QuadPositions == 0..3

RECURSIVE PathsOfLen(_)
PathsOfLen(n) ==
    IF n = 0 THEN {<<>>}
    ELSE {Append(p, q) : p \in PathsOfLen(n - 1), q \in QuadPositions}

Quads == UNION {PathsOfLen(n) : n \in 0..(MAX_DEPTH - 1)}

Root == <<>>

\* Quad::depth: 1 at the root (Quad()), depth + 1 in subdivide()
QuadDepth(q) == Len(q) + 1

Child(q, pos) == Append(q, pos)

\* Quad::halfWidth, in pixels: half the larger window side at the root,
\* halfWidth / 2 (int division) in subdivide()
RECURSIVE QuadHalfWidth(_)
QuadHalfWidth(q) ==
    IF q = <<>> THEN Max(WINDOW_WIDTH, WINDOW_HEIGHT) \div 2
    ELSE QuadHalfWidth(SubSeq(q, 1, Len(q) - 1)) \div 2

\* Quad::center, in pixels: the window centre at the root, the parent's
\* centre -/+ halfOfHalfWidth in subdivide()
RECURSIVE QuadCenter(_)
QuadCenter(q) ==
    IF q = <<>> THEN <<WINDOW_WIDTH \div 2, WINDOW_HEIGHT \div 2>>
    ELSE LET parent == SubSeq(q, 1, Len(q) - 1)
             pos    == q[Len(q)]
             c      == QuadCenter(parent)
             h      == QuadHalfWidth(parent) \div 2
         IN  <<IF pos \in {0, 2} THEN c[1] - h ELSE c[1] + h,
               IF pos \in {0, 1} THEN c[2] - h ELSE c[2] + h>>

\* the corners of a node and of a body's AABB, in position units
QuadTopLeft(q) ==
    <<Px(QuadCenter(q)[1] - QuadHalfWidth(q)),
      Px(QuadCenter(q)[2] - QuadHalfWidth(q))>>

QuadBottomRight(q) ==
    <<Px(QuadCenter(q)[1] + QuadHalfWidth(q)),
      Px(QuadCenter(q)[2] + QuadHalfWidth(q))>>

CircleTopLeft(c) == Vector2SubtractValue(c.position, Px(c.radius))

CircleBottomRight(c) == Vector2AddValue(c.position, Px(c.radius))

\* a containment test that looks at the centre of the body only
CanContainCentre(q, c) ==
    /\ c.position[1] >= QuadTopLeft(q)[1]
    /\ c.position[2] >= QuadTopLeft(q)[2]
    /\ c.position[1] <= QuadBottomRight(q)[1]
    /\ c.position[2] <= QuadBottomRight(q)[2]

\* Quad::canContainCircle: the node holds the whole AABB of the body
CanContainCircle(q, c) ==
    /\ CircleTopLeft(c)[1] >= QuadTopLeft(q)[1]
    /\ CircleTopLeft(c)[2] >= QuadTopLeft(q)[2]
    /\ CircleBottomRight(c)[1] <= QuadBottomRight(q)[1]
    /\ CircleBottomRight(c)[2] <= QuadBottomRight(q)[2]

\* Quad::isOverlapping, as written: the sums take the bottom-right corners
\* where the formula it cites takes widths
IsOverlapping(c, q) ==
    /\ CircleTopLeft(c)[1] < QuadTopLeft(q)[1] + QuadBottomRight(q)[1]
    /\ CircleTopLeft(c)[1] + CircleBottomRight(c)[1] > QuadTopLeft(q)[1]
    /\ CircleTopLeft(c)[2] < QuadTopLeft(q)[2] + QuadBottomRight(q)[2]
    /\ CircleTopLeft(c)[2] + CircleBottomRight(c)[2] > QuadTopLeft(q)[2]

\* Quad::getPositionThatCanContainCircle: the four tests all run, and a
\* later match overwrites an earlier one; -1 is QuadPosition::none
GetPositionThatCanContainCircle(q, c) ==
    LET matches == {pos \in QuadPositions : CanContainCircle(Child(q, pos), c)}
    IN  IF matches = {} THEN -1
        ELSE CHOOSE pos \in matches : \A other \in matches : other <= pos

\* Quad::insert: the node the body is stored at
RECURSIVE InsertNode(_, _)
InsertNode(q, c) ==
    IF QuadDepth(q) >= MAX_DEPTH THEN q
    ELSE LET childPositionThatContainsCircle ==
                 GetPositionThatCanContainCircle(q, c)
         IN  IF childPositionThatContainsCircle = -1 THEN q
             ELSE InsertNode(Child(q, childPositionThatContainsCircle), c)

\* The object lists of the tree, and of the grid below, are kept as a
\* function from the nodes (cells) whose list is not empty to that list of
\* body indices; the list of any other node (cell) is empty.
ObjectsAt(objs, q) == IF q \in DOMAIN objs THEN objs[q] ELSE <<>>

\* objects.push_back(circle) at node (cell) q
PushBack(objs, q, i) ==
    [x \in DOMAIN objs \cup {q} |->
        IF x = q THEN Append(ObjectsAt(objs, q), i) ELSE objs[x]]

\* Quad::getObjectsForCollisionCheck on node q for body c, objs being the
\* object lists of the tree: the lists of the overlapping children in the
\* order topLeft, topRight, bottomLeft, bottomRight, then the node's own
RECURSIVE GetObjectsForCollisionCheck(_, _, _)
GetObjectsForCollisionCheck(objs, q, c) ==
    IF ~IsOverlapping(c, q) THEN <<>>
    ELSE IF QuadDepth(q) >= MAX_DEPTH THEN ObjectsAt(objs, q)
    ELSE LET sub(pos) ==
                 IF IsOverlapping(c, Child(q, pos))
                 THEN GetObjectsForCollisionCheck(objs, Child(q, pos), c)
                 ELSE <<>>
         IN  sub(0) \o sub(1) \o sub(2) \o sub(3) \o ObjectsAt(objs, q)

\* Quad::update: the bodies in the order the traversal reaches them, a
\* node's own objects first, then its four subtrees
RECURSIVE UpdateOrder(_, _)
UpdateOrder(objs, q) ==
    IF QuadDepth(q) >= MAX_DEPTH THEN ObjectsAt(objs, q)
    ELSE ObjectsAt(objs, q) \o UpdateOrder(objs, Child(q, 0))
                 \o UpdateOrder(objs, Child(q, 1))
                 \o UpdateOrder(objs, Child(q, 2))
                 \o UpdateOrder(objs, Child(q, 3))

\* The object lists of a tree just built: std::vector<Circle*> objects of
\* every node is empty
ClearedQuads == [q \in {} |-> <<>>]

\* objects.clear() at each of the nodes (cells) qs
ClearAt(objs, qs) == [x \in DOMAIN objs \ qs |-> objs[x]]

\* The nodes that Quad::clear called on node q calls objects.clear() at:
\* q itself and, when q is above MAX_DEPTH, those of the calls on its four
\* children
RECURSIVE QuadsClearedFrom(_)
QuadsClearedFrom(q) ==
    IF QuadDepth(q) >= MAX_DEPTH THEN {q}
    ELSE {q} \cup UNION {QuadsClearedFrom(Child(q, pos)) : pos \in QuadPositions}

\* A clear that empties the list of the node it is called on and does not
\* go on to the children
QuadClearOwnListOnly(objs, q) == ClearAt(objs, {q})

\* Quad::clear on node q
QuadClear(objs, q) == ClearAt(objs, QuadsClearedFrom(q))

---------------------------------------------------------------------------
(* struct UniformGrid (unigrid.cpp) *)

\* UniformGrid(): one row every GRID_SIZE pixels below WINDOW_HEIGHT, one
\* column every GRID_SIZE pixels below WINDOW_WIDTH
NumRows == (WINDOW_HEIGHT + GRID_SIZE - 1) \div GRID_SIZE

NumCols == (WINDOW_WIDTH + GRID_SIZE - 1) \div GRID_SIZE

\* cells[row][col], rows and columns counted from 0
CellIds == (0..(NumRows - 1)) \X (0..(NumCols - 1))

\* The object lists of a grid just built: every cell's list is empty
ClearedCells == [id \in {} |-> <<>>]

\* UniformGrid::clearCells: objects.clear() at cells[i][j] for every row i
\* below cells.size() and every column j below cells[i].size()
ClearCells(grid) ==
    ClearAt(grid, {<<i, j>> : i \in 0..(NumRows - 1), j \in 0..(NumCols - 1)})

\* isInsideValidCell of refreshCellObjects: both ints are compared with a
\* size_t, so a negative index counts as a huge one
IsInsideValidCell(gridX, gridY) ==
    /\ gridY >= 0 /\ gridY < NumRows
    /\ gridX >= 0 /\ gridX < NumCols

\* refreshCellObjects: body i is appended to every valid cell among its
\* gridPositions, bodies in the order of the collection
RECURSIVE AddToCells(_, _, _, _)
AddToCells(cs, grid, i, j) ==
    IF j > Len(cs[i].gridPositions) THEN grid
    ELSE LET gridX == cs[i].gridPositions[j][1]
             gridY == cs[i].gridPositions[j][2]
             next  == IF IsInsideValidCell(gridX, gridY)
                      THEN PushBack(grid, <<gridY, gridX>>, i)
                      ELSE grid
         IN  AddToCells(cs, next, i, j + 1)

RECURSIVE RefreshFrom(_, _, _)
RefreshFrom(cs, grid, i) ==
    IF i > Len(cs) THEN grid
    ELSE RefreshFrom(cs, AddToCells(cs, grid, i, 1), i + 1)

\* refreshCellObjects: clearCells, then every body is added
RefreshCellObjects(grid, cs) == RefreshFrom(cs, ClearCells(grid), 1)

---------------------------------------------------------------------------
(* Narrow phase: Circle::handleCircleCollision *)

\* An entry of the step's history: body a was integrated ("integrate"),
\* a was tested against candidate b ("test", hit telling whether the test
\* applied an impulse), a was tested against the window edges ("edge").
\* aPre and aPost are body a in the collection before and after, bPre and
\* bPost body b (Null where there is no b: b = 0); pre and post are the
\* collection before and after.
Event(kind, a, b, hit, pre, post) ==
    [ev |-> kind, a |-> a, b |-> b, hit |-> hit,
     aPre |-> pre[a], aPost |-> post[a],
     bPre |-> IF b = 0 THEN Null ELSE pre[b],
     bPost |-> IF b = 0 THEN Null ELSE post[b]]

\* One pass of the loop body for body ai and candidate j.  quadtree.cpp
\* holds the candidate by pointer (Circle* b) and skips itself; unigrid.cpp
\* and main.cpp work on a copy (Circle b = ...), which their writes to b
\* change and nothing else; main.cpp reads that copy from the copy of the
\* vector its by-value parameter made at the call (snap), and moves a half
\* a pixel away when the two are at rest relative to each other.  The state
\* is <<circles, log>>.
CollideWith(v, st, snap, ai, j) ==
    LET cs  == st[1]
        a   == cs[ai]
        b   == IF v = "main" THEN snap[j] ELSE cs[j]
        collisionNormalAB  == Vector2Subtract(b.position, a.position)
        relativeVelocityAB == Vector2Subtract(a.velocity, b.velocity)
        a1  == IF v = "main" /\ relativeVelocityAB = <<0, 0>>
               THEN [a EXCEPT !.position = Vector2Subtract(
                        @, HalfPixelAlong(collisionNormalAB))]
               ELSE a
        num == ImpulseNum(v, a, b, relativeVelocityAB, collisionNormalAB)
        den == ImpulseDen(a, b, collisionNormalAB)
        a2  == [a1 EXCEPT !.velocity = Vector2Add(
                    @, ImpulseStep(collisionNormalAB, a.mass, num, den))]
        b2  == [b EXCEPT !.velocity = Vector2Subtract(
                    @, ImpulseStep(collisionNormalAB, b.mass, num, den))]
        hit == /\ CirclesCollide(a, b)
               /\ Vector2DotProduct(relativeVelocityAB, collisionNormalAB) > 0
        out == IF ~CirclesCollide(a, b) THEN cs
               ELSE IF hit
               THEN IF v = "quadtree"
                    THEN [cs EXCEPT ![ai] = a2, ![j] = b2]
                    ELSE [cs EXCEPT ![ai] = a2]
               ELSE [cs EXCEPT ![ai] = a1]
    IN  IF v = "quadtree" /\ j = ai THEN st
        ELSE <<out, Append(st[2], Event("test", ai, j, hit, cs, out))>>

RECURSIVE CollideFrom(_, _, _, _, _, _)
CollideFrom(v, st, snap, ai, candidates, k) ==
    IF k > Len(candidates) THEN st
    ELSE CollideFrom(v, CollideWith(v, st, snap, ai, candidates[k]),
                     snap, ai, candidates, k + 1)

\* Circle::handleCircleCollision(candidates) of body ai
HandleCircleCollision(v, st, ai, candidates) ==
    CollideFrom(v, st, st[1], ai, candidates, 1)

\* objects[i]->handleEdgeCollision() on the state <<circles, log>>
EdgeStep(v, st, i) ==
    LET out == [st[1] EXCEPT ![i] = HandleEdgeCollision(v, st[1][i])]
    IN  <<out, Append(st[2], Event("edge", i, 0, FALSE, st[1], out))>>

\* circles[i]->update() on the state <<circles, log>>
UpdateStep(v, st, i) ==
    LET out == [st[1] EXCEPT ![i] = CircleUpdate(v, st[1][i], <<0, 0>>)]
    IN  <<out, Append(st[2], Event("integrate", i, 0, FALSE, st[1], out))>>

---------------------------------------------------------------------------
(* main(): the frame loop and the fixed step of the three programs *)

\* A position given in pixels
At(x, y) == <<Px(x), Px(y)>>

\* The bodies a run starts with.  The collection is taken between two
\* frames of a running simulation: every body lies inside the window, small
\* bodies have a radius in SMALL_CIRCLE_RADIUS_MIN..SMALL_CIRCLE_RADIUS_MAX-1
\* and mass SMALL_CIRCLE_MASS, big ones BIG_CIRCLE_RADIUS and
\* BIG_CIRCLE_MASS (Circle::spawn).
StartCircles ==
    { Circle(9, SMALL_CIRCLE_MASS, At(100, 100), <<10, 0>>),
      Circle(9, SMALL_CIRCLE_MASS, At(115, 100), <<-10, 0>>),
      Circle(9, SMALL_CIRCLE_MASS, At(10, 100), <<-90, 0>>),
      Circle(5, SMALL_CIRCLE_MASS, At(6, 6), <<-90, -90>>),
      Circle(9, SMALL_CIRCLE_MASS, At(640, 238), <<-10, 0>>),
      Circle(9, SMALL_CIRCLE_MASS, At(625, 238), <<10, 0>>),
      Circle(BIG_CIRCLE_RADIUS, BIG_CIRCLE_MASS, At(131, 100), <<-12, 0>>) }

\* deltaTime = GetFrameTime(), in half timesteps
FrameDeltas == {1, 2, 4}

IsBig(c) == c.mass = BIG_CIRCLE_MASS

\* main.cpp keeps the small and the big bodies in two vectors: the indices
\* of the collection that are in smallCircles and in bigCircles, in order
RECURSIVE IndicesWhere(_, _, _)
IndicesWhere(cs, big, i) ==
    IF i > Len(cs) THEN <<>>
    ELSE (IF IsBig(cs[i]) = big THEN <<i>> ELSE <<>>)
         \o IndicesWhere(cs, big, i + 1)

SmallCircles(cs) == IndicesWhere(cs, FALSE, 1)

BigCircles(cs) == IndicesWhere(cs, TRUE, 1)

\* the order in which main.cpp's two for-loops reach the bodies
MainOrder(cs) == SmallCircles(cs) \o BigCircles(cs)

\* the place of a cell in the two for-loops of unigrid.cpp's main(), which
\* go through the rows and, in a row, through the columns
CellRank(id) == id[1] * NumCols + id[2]

\* the <<cell, position in the cell's list>> pairs the collision loops of
\* unigrid.cpp reach, in order, among the cells `left`; an empty cell is
\* skipped (continue)
RECURSIVE GridWorkFrom(_, _)
GridWorkFrom(grid, left) ==
    IF left = {} THEN <<>>
    ELSE LET id == CHOOSE c \in left :
                       \A d \in left : CellRank(c) <= CellRank(d)
         IN  [n \in 1..Len(ObjectsAt(grid, id)) |-> <<id, n>>]
             \o GridWorkFrom(grid, left \ {id})

GridWork(grid) == GridWorkFrom(grid, DOMAIN grid)

\* the spawn counters of a run that holds the bodies cs: main() counts the
\* requests since the last big body and the small and the big bodies
CountersOf(cs) ==
    [numberOfSpawnKeyPresses |-> 0,
     numberOfSmallCirclesPresent |-> Len(SmallCircles(cs)),
     numberOfBigCirclesPresent |-> Len(BigCircles(cs))]

\* what a frame enters the physics loop with: the accumulator after
\* accumulator += deltaTime, the steps run so far and the bodies
FrameEntry(acc, n, cs) == [accumulator |-> acc, steps |-> n, circles |-> cs]

Init ==
    /\ variant \in Variants
    /\ \E start \in [1..NumCircles -> StartCircles] :
          /\ \A i, j \in 1..NumCircles : i # j => start[i] # start[j]
          /\ circles = [i \in 1..NumCircles |->
                           SetPosition(variant, start[i], start[i].position)]
    /\ objects = ClearedQuads
    /\ cells = ClearedCells
    /\ accumulator = 0
    /\ pc = "frame"
    /\ cursor = 0
    /\ steps = 0
    /\ counters = CountersOf(circles)
    /\ log = <<>>
    /\ frameStart = FrameEntry(0, 0, circles)

\* accumulator += deltaTime, at the top of a frame.  A frame is started
\* only if the limit leaves room for all the steps it will run.
FrameWithin(limit) ==
    /\ pc = "frame"
    /\ \E deltaTime \in FrameDeltas :
          /\ steps + ((accumulator + deltaTime) \div TIMESTEP) <= limit
          /\ accumulator' = accumulator + deltaTime
    /\ frameStart' = FrameEntry(accumulator', steps, circles)
    /\ pc' = "loop"
    /\ UNCHANGED <<variant, circles, objects, cells, cursor, steps, log,
                   counters>>

Frame == FrameWithin(MaxSteps)

\* while (accumulator >= TIMESTEP) fails: the frame is drawn
ExitLoop ==
    /\ pc = "loop"
    /\ accumulator < TIMESTEP
    /\ pc' = "frame"
    /\ UNCHANGED <<variant, circles, objects, cells, accumulator, cursor,
                   steps, log, counters, frameStart>>

\* a loop that runs while (accumulator > 0)
BeginStepWhilePositive ==
    /\ pc = "loop"
    /\ accumulator > 0
    /\ pc' = "integrate"
    /\ cursor' = 1
    /\ log' = <<>>
    /\ objects' = IF variant = "quadtree" THEN QuadClear(objects, Root)
                                         ELSE objects
    /\ UNCHANGED <<variant, circles, cells, accumulator, steps, counters,
                   frameStart>>

\* while (accumulator >= TIMESTEP) holds: a fixed step starts;
\* quadtree.cpp starts it with quadtree.clear()
BeginStep ==
    /\ pc = "loop"
    /\ accumulator >= TIMESTEP
    /\ pc' = "integrate"
    /\ cursor' = 1
    /\ log' = <<>>
    /\ objects' = IF variant = "quadtree" THEN QuadClear(objects, Root)
                                         ELSE objects
    /\ UNCHANGED <<variant, circles, cells, accumulator, steps, counters,
                   frameStart>>

\* main.cpp: one pass of a body loop: update, the two collision passes,
\* the edge test
MainStep ==
    /\ variant = "main"
    /\ pc = "integrate"
    /\ LET i   == MainOrder(circles)[cursor]
           st1 == UpdateStep(variant, <<circles, log>>, i)
           st2 == HandleCircleCollision(variant, st1, i, SmallCircles(circles))
           st3 == HandleCircleCollision(variant, st2, i, BigCircles(circles))
           st4 == EdgeStep(variant, st3, i)
       IN  /\ circles' = st4[1]
           /\ log' = st4[2]
    /\ IF cursor < Len(circles)
       THEN /\ cursor' = cursor + 1
            /\ pc' = pc
       ELSE /\ cursor' = 0
            /\ pc' = "end"
    /\ UNCHANGED <<variant, objects, cells, accumulator, steps, counters,
                   frameStart>>

\* a rebuild whose insert sets the back-pointer where it stores a body above
\* MAX_DEPTH and leaves it as update() set it, nullptr, at the deepest level
QuadIntegrateLeafUnlinked ==
    /\ variant = "quadtree"
    /\ pc = "integrate"
    /\ LET st1  == UpdateStep(variant, <<circles, log>>, cursor)
           node == InsertNode(Root, st1[1][cursor])
       IN  /\ circles' = IF QuadDepth(node) >= MAX_DEPTH THEN st1[1]
                         ELSE [st1[1] EXCEPT ![cursor].quad = node]
           /\ objects' = PushBack(objects, node, cursor)
           /\ log' = st1[2]
    /\ IF cursor < Len(circles)
       THEN /\ cursor' = cursor + 1
            /\ pc' = pc
       ELSE /\ cursor' = 1
            /\ pc' = "resolve"
    /\ UNCHANGED <<variant, cells, accumulator, steps, counters, frameStart>>

\* quadtree.cpp: one pass of the rebuild loop:
\* circles[i]->update(); quadtree.insert(circles[i])
QuadIntegrate ==
    /\ variant = "quadtree"
    /\ pc = "integrate"
    /\ LET st1  == UpdateStep(variant, <<circles, log>>, cursor)
           node == InsertNode(Root, st1[1][cursor])
       IN  /\ circles' = [st1[1] EXCEPT ![cursor].quad = node]
           /\ objects' = PushBack(objects, node, cursor)
           /\ log' = st1[2]
    /\ IF cursor < Len(circles)
       THEN /\ cursor' = cursor + 1
            /\ pc' = pc
       ELSE /\ cursor' = 1
            /\ pc' = "resolve"
    /\ UNCHANGED <<variant, cells, accumulator, steps, counters, frameStart>>

\* quadtree.cpp: Quad::update reaches one stored body: the query from the
\* body's own node, the collision pass, the edge test
QuadResolve ==
    /\ variant = "quadtree"
    /\ pc = "resolve"
    /\ LET order == UpdateOrder(objects, Root)
           i     == order[cursor]
           objectsForCollisionCheck ==
               GetObjectsForCollisionCheck(objects, circles[i].quad, circles[i])
           st1   == HandleCircleCollision(variant, <<circles, log>>, i,
                                          objectsForCollisionCheck)
           st2   == EdgeStep(variant, st1, i)
       IN  /\ circles' = st2[1]
           /\ log' = st2[2]
           /\ IF cursor < Len(order)
              THEN /\ cursor' = cursor + 1
                   /\ pc' = pc
              ELSE /\ cursor' = 0
                   /\ pc' = "end"
    /\ UNCHANGED <<variant, objects, cells, accumulator, steps, counters,
                   frameStart>>

\* unigrid.cpp: one pass of the "move objects first" loop
GridIntegrate ==
    /\ variant = "unigrid"
    /\ pc = "integrate"
    /\ LET st1 == UpdateStep(variant, <<circles, log>>, cursor)
       IN  /\ circles' = st1[1]
           /\ log' = st1[2]
    /\ IF cursor < Len(circles)
       THEN /\ cursor' = cursor + 1
            /\ pc' = pc
       ELSE /\ cursor' = 0
            /\ pc' = "refresh"
    /\ UNCHANGED <<variant, objects, cells, accumulator, steps, counters,
                   frameStart>>

\* unigrid.cpp: refreshCellObjects(&uniformGrid, circles)
GridRefresh ==
    /\ variant = "unigrid"
    /\ pc = "refresh"
    /\ cells' = RefreshCellObjects(cells, circles)
    /\ IF GridWork(cells') = <<>>
       THEN /\ cursor' = 0
            /\ pc' = "end"
       ELSE /\ cursor' = 1
            /\ pc' = "resolve"
    /\ UNCHANGED <<variant, circles, objects, accumulator, steps, log,
                   counters, frameStart>>

\* unigrid.cpp: one pass of the innermost loop: a body of a cell is tested
\* against the cell's list if the cell holds two bodies or more, then
\* against the window edges
GridResolve ==
    /\ variant = "unigrid"
    /\ pc = "resolve"
    /\ LET work == GridWork(cells)
           objs == ObjectsAt(cells, work[cursor][1])
           i    == objs[work[cursor][2]]
           st1  == IF Len(objs) < 2 THEN <<circles, log>>
                   ELSE HandleCircleCollision(variant, <<circles, log>>, i, objs)
           st2  == EdgeStep(variant, st1, i)
       IN  /\ circles' = st2[1]
           /\ log' = st2[2]
           /\ IF cursor < Len(work)
              THEN /\ cursor' = cursor + 1
                   /\ pc' = pc
              ELSE /\ cursor' = 0
                   /\ pc' = "end"
    /\ UNCHANGED <<variant, objects, cells, accumulator, steps, counters,
                   frameStart>>

\* accumulator -= TIMESTEP, at the end of the step
EndStep ==
    /\ pc = "end"
    /\ accumulator' = accumulator - TIMESTEP
    /\ steps' = steps + 1
    /\ pc' = "loop"
    /\ UNCHANGED <<variant, circles, objects, cells, cursor, log, counters,
                   frameStart>>

Next ==
    \/ Frame
    \/ ExitLoop
    \/ BeginStep
    \/ MainStep
    \/ QuadIntegrate
    \/ QuadResolve
    \/ GridIntegrate
    \/ GridRefresh
    \/ GridResolve
    \/ EndStep

Spec == Init /\ [][Next]_vars

---------------------------------------------------------------------------
(* unigrid.cpp alone, from a start where a small body lies between two big
   bodies that close in on it *)

\* All speeds are speeds Circle::spawn gives (up to CIRCLE_VELOCITY_MAX + 1
\* = 201 on an axis) and all bodies lie inside the window.  The small body
\* comes first in the collection, the big body on its left second, the big
\* body on its right third.
SqueezeCircles ==
    { <<Circle(5, SMALL_CIRCLE_MASS, At(x, 100), <<-200, 0>>),
        Circle(BIG_CIRCLE_RADIUS, BIG_CIRCLE_MASS, At(26, 100), <<200, 0>>),
        Circle(BIG_CIRCLE_RADIUS, BIG_CIRCLE_MASS, At(60, 100), <<-200, 0>>)>>
      : x \in {35, 36} }

InitSqueeze ==
    /\ variant = "unigrid"
    /\ \E start \in SqueezeCircles :
          circles = [i \in 1..Len(start) |->
                        SetPosition(variant, start[i], start[i].position)]
    /\ objects = ClearedQuads
    /\ cells = ClearedCells
    /\ accumulator = 0
    /\ pc = "frame"
    /\ cursor = 0
    /\ steps = 0
    /\ counters = CountersOf(circles)
    /\ log = <<>>
    /\ frameStart = FrameEntry(0, 0, circles)

FrameSqueeze == FrameWithin(SqueezeSteps)

NextSqueeze ==
    \/ FrameSqueeze
    \/ ExitLoop
    \/ BeginStep
    \/ GridIntegrate
    \/ GridRefresh
    \/ GridResolve
    \/ EndStep

SpecSqueeze == InitSqueeze /\ [][NextSqueeze]_vars

---------------------------------------------------------------------------
(* Circle::update alone: one body, small or big, integrated under a force.
   The programs call update() with its default force of zero; here the
   force is an input, as the signature update(force, timestep) has it. *)

\* velocity components around the deadzone and away from it, pixels per
\* second
UpdateVelocities == {0, 3, -4, 5, -5, 7, -100}

\* forces: none, and whole multiples of BIG_CIRCLE_MASS * TARGET_FPS, so
\* that force / mass * TIMESTEP is a whole number of pixels per second
UpdateForces == {<<0, 0>>, <<600, 0>>, <<0, -600>>, <<-1200, 600>>}

UpdateCircles ==
    {<<Circle(r[1], r[2], At(WINDOW_WIDTH \div 2, WINDOW_HEIGHT \div 2), <<vx, vy>>)>> :
        r \in {<<SMALL_CIRCLE_RADIUS_MIN, SMALL_CIRCLE_MASS>>,
                <<BIG_CIRCLE_RADIUS, BIG_CIRCLE_MASS>>},
        vx \in UpdateVelocities, vy \in UpdateVelocities}

InitUpdate ==
    /\ variant \in Variants
    /\ \E start \in UpdateCircles :
          circles = [i \in 1..Len(start) |->
                        SetPosition(variant, start[i], start[i].position)]
    /\ objects = ClearedQuads
    /\ cells = ClearedCells
    /\ accumulator = 0
    /\ pc = "update"
    /\ cursor = 1
    /\ steps = 0
    /\ counters = CountersOf(circles)
    /\ log = <<>>
    /\ frameStart = FrameEntry(0, 0, circles)

\* circles[cursor]->update(force)
UpdateWithForce ==
    /\ pc = "update"
    /\ steps < MaxUpdates
    /\ \E force \in UpdateForces :
          /\ circles' = [circles EXCEPT
                            ![cursor] = CircleUpdate(variant, circles[cursor], force)]
          /\ log' = Append(log, Event("integrate", cursor, 0, FALSE, circles, circles')
                                   @@ [force |-> force])
    /\ steps' = steps + 1
    /\ UNCHANGED <<variant, objects, cells, accumulator, pc, cursor, counters,
                   frameStart>>

NextUpdate == UpdateWithForce

SpecUpdate == InitUpdate /\ [][NextUpdate]_vars

---------------------------------------------------------------------------
(* The spawn request of main() alone: the frame loop with the spawn key and
   the pause key as its inputs, before any fixed step.  pc says whether the
   program is paused (quadtree.cpp and unigrid.cpp; main.cpp has no pause).
   Every request appends one entry to the history. *)

\* Circle::spawn(): a small body.  Its radius and velocity are drawn with
\* rand(); the model takes the same draw every time, the smallest radius
\* and the lowest speed.
SmallSpawn(v) ==
    LET c == Circle(SMALL_CIRCLE_RADIUS_MIN, SMALL_CIRCLE_MASS,
                    At(WINDOW_WIDTH \div 2, WINDOW_HEIGHT \div 2),
                    <<CIRCLE_VELOCITY_MIN, -CIRCLE_VELOCITY_MIN>>)
    IN  SetPosition(v, c, c.position)

\* Circle::spawn(CircleSize::big): a big body at the bottom middle, going
\* left or right (direction is directionMultiplier())
BigSpawn(v, direction) ==
    LET c == Circle(BIG_CIRCLE_RADIUS, BIG_CIRCLE_MASS,
                    At(WINDOW_WIDTH \div 2, WINDOW_HEIGHT - BIG_CIRCLE_RADIUS),
                    <<direction * CIRCLE_VELOCITY_MIN, CIRCLE_VELOCITY_MIN>>)
    IN  SetPosition(v, c, c.position)

\* smallCircles.size() and bigCircles.size() of main.cpp; the numbers of
\* small and of big bodies in the one vector of the other two programs
CountOf(cs, big) == Cardinality({i \in 1..Len(cs) : IsBig(cs[i]) = big})

\* the for loop of the spawn request: push_back and spawn() for every i
\* from `from` up to and not including `to`
SpawnSmallFrom(v, cs, from, to) ==
    IF from >= to THEN cs
    ELSE cs \o [n \in 1..(to - from) |-> SmallSpawn(v)]

InitSpawn ==
    /\ variant \in Variants
    /\ circles = <<>>
    /\ objects = ClearedQuads
    /\ cells = ClearedCells
    /\ accumulator = 0
    /\ pc = "running"
    /\ cursor = 0
    /\ steps = 0
    /\ counters = CountersOf(circles)
    /\ log = <<>>
    /\ frameStart = FrameEntry(0, 0, circles)

\* if (IsKeyPressed(PAUSE_KEY)) paused = !paused;
TogglePause ==
    /\ variant \in {"quadtree", "unigrid"}
    /\ pc \in {"running", "paused"}
    /\ pc' = IF pc = "running" THEN "paused" ELSE "running"
    /\ UNCHANGED <<variant, circles, objects, cells, accumulator, cursor, steps,
                   counters, log, frameStart>>

\* if (IsKeyPressed(SPAWN_KEY)) { ... }, under if (!paused) in quadtree.cpp
\* and unigrid.cpp.  main.cpp starts the loop at smallCircles.size() and
\* ends it 25 above; the other two start it at circles.size(), the big
\* bodies and the one just pushed included, and end it at
\* numberOfSmallCirclesPresent + 25.  main.cpp has no counters of the
\* bodies: what it shows are the sizes of its two vectors.
SpawnRequest ==
    /\ pc = "running"
    /\ Len(log) < MaxRequests
    /\ \E direction \in {-1, 1} :
          LET presses == counters.numberOfSpawnKeyPresses + 1
              bigNow  == presses % NUMBER_OF_PRESSES_UNTIL_BIG_CIRCLE_SPAWNS = 0
              withBig == IF bigNow THEN Append(circles, BigSpawn(variant, direction))
                         ELSE circles
              from    == IF variant = "main" THEN CountOf(withBig, FALSE)
                         ELSE Len(withBig)
              numberOfSmallCirclesAfterSpawning ==
                  (IF variant = "main" THEN CountOf(withBig, FALSE)
                   ELSE counters.numberOfSmallCirclesPresent)
                      + SMALL_CIRCLES_TO_SPAWN_SIMULTANEOUSLY
              after   == SpawnSmallFrom(variant, withBig, from,
                                        numberOfSmallCirclesAfterSpawning)
          IN  /\ bigNow \/ direction = 1
              /\ circles' = after
              /\ counters' =
                    [numberOfSpawnKeyPresses |-> IF bigNow THEN 0 ELSE presses,
                     numberOfSmallCirclesPresent |->
                         IF variant = "main" THEN CountOf(after, FALSE)
                         ELSE numberOfSmallCirclesAfterSpawning,
                     numberOfBigCirclesPresent |->
                         IF variant = "main" THEN CountOf(after, TRUE)
                         ELSE counters.numberOfBigCirclesPresent
                                  + (IF bigNow THEN 1 ELSE 0)]
              /\ log' = Append(log, [ev |-> "spawn", big |-> bigNow,
                                     sizeBefore |-> Len(circles),
                                     sizeAfter |-> Len(after)])
    /\ UNCHANGED <<variant, objects, cells, accumulator, pc, cursor, steps,
                   frameStart>>

NextSpawn ==
    \/ TogglePause
    \/ SpawnRequest

SpecSpawn == InitSpawn /\ [][NextSpawn]_vars

---------------------------------------------------------------------------
(* Vocabulary of the properties *)

Bodies == 1..Len(circles)

Elems(seq) == {seq[k] : k \in 1..Len(seq)}

Occurrences(seq, x) == Cardinality({k \in 1..Len(seq) : seq[k] = x})

\* the broad-phase index has been rebuilt in the step in progress and
\* nothing has been resolved yet: every body has been integrated and the
\* history holds nothing else
IndexRebuilt ==
    /\ variant \in {"quadtree", "unigrid"}
    /\ pc \in {"resolve", "end"}
    /\ \A k \in 1..Len(log) : log[k].ev = "integrate"

\* the candidates the program obtains for body i: the answer of the query
\* that Quad::update makes for it, or the lists of the cells that list it
CandidatesOf(i) ==
    IF variant = "quadtree"
    THEN Elems(GetObjectsForCollisionCheck(objects, circles[i].quad, circles[i]))
    ELSE UNION {Elems(cells[id]) : id \in {c \in DOMAIN cells : i \in Elems(cells[c])}}

\* the AABB of body c lies inside the square of node q
AabbInsideQuad(c, q) ==
    /\ c.position[1] - Px(c.radius) >= Px(QuadCenter(q)[1] - QuadHalfWidth(q))
    /\ c.position[1] + Px(c.radius) <= Px(QuadCenter(q)[1] + QuadHalfWidth(q))
    /\ c.position[2] - Px(c.radius) >= Px(QuadCenter(q)[2] - QuadHalfWidth(q))
    /\ c.position[2] + Px(c.radius) <= Px(QuadCenter(q)[2] + QuadHalfWidth(q))

\* the AABB of body c and the square of node q have inner points in common
AabbOverlapsQuad(c, q) ==
    /\ c.position[1] - Px(c.radius) < Px(QuadCenter(q)[1] + QuadHalfWidth(q))
    /\ c.position[1] + Px(c.radius) > Px(QuadCenter(q)[1] - QuadHalfWidth(q))
    /\ c.position[2] - Px(c.radius) < Px(QuadCenter(q)[2] + QuadHalfWidth(q))
    /\ c.position[2] + Px(c.radius) > Px(QuadCenter(q)[2] - QuadHalfWidth(q))

\* the AABB of body c meets the square of cell <<row, col>>, which holds
\* its top and left edge and not its bottom and right edge (the cells
\* tile the plane)
AabbMeetsCell(c, id) ==
    /\ c.position[1] - Px(c.radius) < Px((id[2] + 1) * GRID_SIZE)
    /\ c.position[1] + Px(c.radius) >= Px(id[2] * GRID_SIZE)
    /\ c.position[2] - Px(c.radius) < Px((id[1] + 1) * GRID_SIZE)
    /\ c.position[2] + Px(c.radius) >= Px(id[1] * GRID_SIZE)

\* the circles of bodies a and b overlap: (ra + rb)^2 >= squared distance
Overlapping(a, b) ==
    LET sum == Px(a.radius + b.radius)
        dx  == Abs(a.position[1] - b.position[1])
        dy  == Abs(a.position[2] - b.position[2])
    IN  dx <= sum /\ dy <= sum /\ sum * sum >= dx * dx + dy * dy

\* body c lies inside the window: position in [radius, size - radius]
InsideBounds(c) ==
    /\ c.position[1] >= Px(c.radius)
    /\ c.position[1] <= Px(WINDOW_WIDTH - c.radius)
    /\ c.position[2] >= Px(c.radius)
    /\ c.position[2] <= Px(WINDOW_HEIGHT - c.radius)

\* the position body i had when the step in progress started to integrate
\* it (k is the place of a later entry of the history)
StartOfStep(i, k) ==
    LET first == CHOOSE n \in 1..k : log[n].ev = "integrate" /\ log[n].a = i
    IN  log[first].aPre.position

---------------------------------------------------------------------------
(* C1: no missed collisions *)

\* C1: once the index has been rebuilt in a step, of any two distinct bodies
\* whose circles overlap at least one is among the candidates obtained for
\* the other, in the quadtree program and in the grid program.
C1_NoMissedCollision ==
    IndexRebuilt =>
        \A i, j \in Bodies :
            (i # j /\ Overlapping(circles[i], circles[j]))
                => (j \in CandidatesOf(i) \/ i \in CandidatesOf(j))

---------------------------------------------------------------------------
(* C2: what the quadtree query returns *)

\* C2: the query made for a body returns every body stored at any node whose
\* square overlaps the body's AABB, the ancestors of the body's node
\* included.
C2_QueryCoversOverlappingNodes ==
    (IndexRebuilt /\ variant = "quadtree") =>
        \A i \in Bodies : \A q \in Quads :
            AabbOverlapsQuad(circles[i], q)
                => Elems(ObjectsAt(objects, q)) \subseteq CandidatesOf(i)

---------------------------------------------------------------------------
(* C3: quadtree containment *)

\* the bodies stored at a node that is not at maximum depth fit in no child
NoChildContains ==
    \A q \in DOMAIN objects : \A i \in Elems(objects[q]) :
        QuadDepth(q) < MAX_DEPTH
            => \A pos \in QuadPositions :
                   ~AabbInsideQuad(circles[i], Child(q, pos))

\* C3, as claimed: after the rebuild every body stored at a node N, the root
\* included, has its AABB inside N's square, and a body stored at a node
\* that is not at maximum depth fits in no child of that node.
C3_ContainmentRootIncluded ==
    (IndexRebuilt /\ variant = "quadtree") =>
        /\ \A q \in DOMAIN objects : \A i \in Elems(objects[q]) :
               AabbInsideQuad(circles[i], q)
        /\ NoChildContains

\* C3, amended: after the rebuild every body stored at a node N other than
\* the root has its AABB inside N's square (the root also holds the bodies
\* whose AABB sticks out of the root square), and a body stored at a node
\* that is not at maximum depth fits in no child of that node.
C3_ContainmentBelowRoot ==
    (IndexRebuilt /\ variant = "quadtree") =>
        /\ \A q \in DOMAIN objects : \A i \in Elems(objects[q]) :
               q # Root => AabbInsideQuad(circles[i], q)
        /\ NoChildContains

\* a rebuilt tree with a body at the root that sticks out of the root square
\* and a body stored below the root
C3_Witness ==
    /\ IndexRebuilt /\ variant = "quadtree"
    /\ \E i \in Elems(ObjectsAt(objects, Root)) :
           ~AabbInsideQuad(circles[i], Root)
    /\ \E q \in DOMAIN objects : q # Root

---------------------------------------------------------------------------
(* C4: grid coverage *)

\* C4: right after the grid has been rebuilt, a body is in the list of a
\* cell if and only if the square of that cell meets the AABB of the body.
C4_GridCoverage ==
    (IndexRebuilt /\ variant = "unigrid") =>
        \A i \in Bodies : \A id \in CellIds :
            (i \in Elems(ObjectsAt(cells, id)))
                <=> AabbMeetsCell(circles[i], id)

\* a rebuilt grid with a body listed in several cells and a body whose AABB
\* reaches beyond the grid
C4_Witness ==
    /\ IndexRebuilt /\ variant = "unigrid"
    /\ \E i \in Bodies :
           Cardinality({id \in DOMAIN cells : i \in Elems(cells[id])}) >= 2
    /\ \E i \in Bodies :
           /\ circles[i].position[1] - Px(circles[i].radius) < 0
           /\ \E id \in DOMAIN cells : i \in Elems(cells[id])

---------------------------------------------------------------------------
(* C5: a pair is tested once in a step *)

\* C5: within one fixed step of the quadtree program or of the grid program
\* no unordered pair of distinct bodies is narrow-phase tested twice,
\* neither in the reverse order nor once per shared cell.
C5_PairTestedOnce ==
    variant \in {"quadtree", "unigrid"} =>
        \A k, m \in 1..Len(log) :
            (/\ k < m
             /\ log[k].ev = "test" /\ log[m].ev = "test"
             /\ log[k].a # log[k].b)
                => {log[k].a, log[k].b} # {log[m].a, log[m].b}

---------------------------------------------------------------------------
(* C6: an elastic head-on collision swaps the velocities *)

\* two bodies of equal mass on one horizontal line, moving along it
HeadOnAlongX(a, b) ==
    /\ a.mass = b.mass
    /\ a.position[2] = b.position[2]
    /\ a.velocity[2] = 0 /\ b.velocity[2] = 0

\* C6: in the programs with restitution 1.0 (quadtree.cpp, unigrid.cpp), a
\* resolved collision between two distinct bodies of equal mass that
\* approach head-on along the x-axis leaves each of the two, in the stored
\* collection, with the velocity the other had, and the total momentum
\* unchanged.
C6_HeadOnSwapsVelocities ==
    variant \in {"quadtree", "unigrid"} =>
        \A k \in 1..Len(log) :
            (/\ log[k].ev = "test" /\ log[k].hit
             /\ log[k].a # log[k].b
             /\ HeadOnAlongX(log[k].aPre, log[k].bPre))
                => /\ log[k].aPost.velocity = log[k].bPre.velocity
                   /\ log[k].bPost.velocity = log[k].aPre.velocity
                   /\ log[k].aPost.mass * log[k].aPost.velocity[1]
                        + log[k].bPost.mass * log[k].bPost.velocity[1]
                      = log[k].aPre.mass * log[k].aPre.velocity[1]
                        + log[k].bPre.mass * log[k].bPre.velocity[1]

---------------------------------------------------------------------------
(* C7: the edge collision *)

\* position -/+ radius reaches or crosses a window edge on the x (y) axis
ReachesEdgeX(c) ==
    \/ c.position[1] - Px(c.radius) <= 0
    \/ c.position[1] + Px(c.radius) >= Px(WINDOW_WIDTH)

ReachesEdgeY(c) ==
    \/ c.position[2] - Px(c.radius) <= 0
    \/ c.position[2] + Px(c.radius) >= Px(WINDOW_HEIGHT)

\* C7: the edge test of a body that reaches or crosses a window edge puts
\* the body back at the position it had before the step integrated it and
\* negates the velocity component of each axis on which it does; a body
\* inside the bounds on both axes is left as it is.
C7_EdgeRestoresAndReflects ==
    \A k \in 1..Len(log) :
        log[k].ev = "edge" =>
            LET before == log[k].aPre
                after  == log[k].aPost
                outX   == ReachesEdgeX(before)
                outY   == ReachesEdgeY(before)
            IN  /\ (outX \/ outY)
                      => after.position = StartOfStep(log[k].a, k)
                /\ after.velocity[1] = IF outX THEN -before.velocity[1]
                                       ELSE before.velocity[1]
                /\ after.velocity[2] = IF outY THEN -before.velocity[2]
                                       ELSE before.velocity[2]
                /\ (~outX /\ ~outY) => after = before

---------------------------------------------------------------------------
(* C8: boundary containment *)

\* C8: after every complete fixed step every body lies inside the window,
\* position.x in [radius, WINDOW_WIDTH - radius] and position.y in
\* [radius, WINDOW_HEIGHT - radius].
C8_BoundaryContainment ==
    (pc \in {"end", "loop", "frame"}) =>
        \A i \in Bodies : InsideBounds(circles[i])

---------------------------------------------------------------------------
(* C9: integration comes before the collision tests *)

\* C9: when a pairwise test of a fixed step is evaluated, every body of the
\* collection has been integrated in that step.
C9_IntegratedBeforeTests ==
    \A k \in 1..Len(log) :
        log[k].ev = "test" =>
            \A i \in Bodies :
                \E n \in 1..(k - 1) :
                    log[n].ev = "integrate" /\ log[n].a = i

---------------------------------------------------------------------------
(* C10: every body is registered by the rebuild *)

\* the number of nodes' lists that hold body i, with multiplicity
RECURSIVE CountIn(_, _, _)
CountIn(objs, nodes, i) ==
    IF nodes = {} THEN 0
    ELSE LET q == CHOOSE n \in nodes : TRUE
         IN  Occurrences(objs[q], i) + CountIn(objs, nodes \ {q}, i)

\* C10: after the rebuild every body of the collection is registered, in
\* exactly one node of the quadtree or in at least one cell of the grid,
\* also when its AABB lies partly or wholly outside the root square or the
\* grid: a body is never dropped.
C10_EveryBodyRegistered ==
    IndexRebuilt =>
        \A i \in Bodies :
            IF variant = "quadtree"
            THEN CountIn(objects, DOMAIN objects, i) = 1
            ELSE \E id \in DOMAIN cells : i \in Elems(cells[id])

---------------------------------------------------------------------------
(* C11: the fixed steps of a frame *)

\* the fixed steps run since the frame in progress entered the loop
StepsThisFrame == steps - frameStart.steps

\* the whole steps that had accumulated when the frame entered the loop
WholeSteps == frameStart.accumulator \div TIMESTEP

C11_StepsBounded ==
    /\ StepsThisFrame <= WholeSteps
    /\ accumulator >= 0
    /\ pc = "frame" =>
          /\ StepsThisFrame = WholeSteps
          /\ accumulator < TIMESTEP
    /\ frameStart.accumulator < TIMESTEP =>
          /\ StepsThisFrame = 0
          /\ circles = frameStart.circles

\* How far the pass is from its end: the whole steps still to run, the
\* stage of the step in progress, the passes its running loop has left.
\* The three are natural numbers, compared in this order.
StageRank ==
    CASE pc = "frame" -> 0
      [] pc = "end" -> 1
      [] pc = "resolve" -> 2
      [] pc = "refresh" -> 3
      [] pc = "integrate" -> 4
      [] pc = "loop" -> 5

PassesLeft ==
    CASE pc = "integrate" -> Len(circles) - cursor + 1
      [] pc = "resolve" /\ variant = "quadtree" ->
             Len(UpdateOrder(objects, Root)) - cursor + 1
      [] pc = "resolve" /\ variant = "unigrid" ->
             Len(GridWork(cells)) - cursor + 1
      [] OTHER -> 0

LoopRank == <<WholeSteps - StepsThisFrame, StageRank, PassesLeft>>

RankLess(r, t) ==
    \/ r[1] < t[1]
    \/ r[1] = t[1] /\ r[2] < t[2]
    \/ r[1] = t[1] /\ r[2] = t[2] /\ r[3] < t[3]

\* C11: a pass of the physics loop that starts with A = accumulator +
\* deltaTime never runs more than floor(A / TIMESTEP) fixed steps; it ends
\* (every move in the loop brings it nearer to its end), and has then run
\* exactly floor(A / TIMESTEP) steps and left 0 <= accumulator < TIMESTEP;
\* with A < TIMESTEP it runs no step and changes no body.
C11_WholeStepsOnly ==
    /\ []C11_StepsBounded
    /\ [](LoopRank \in Nat \X Nat \X Nat)
    /\ [][pc # "frame" => RankLess(LoopRank', LoopRank)]_vars

\* a frame that ran two fixed steps is over, with half a step left
C11_Witness ==
    /\ pc = "frame"
    /\ StepsThisFrame = 2
    /\ accumulator = 1

\* a frame that ran no step is over
C11_WitnessNoStep ==
    /\ pc = "frame"
    /\ frameStart.accumulator = 1
    /\ StepsThisFrame = 0

---------------------------------------------------------------------------
(* Clearing the index *)

\* C12: clearing the index empties every list of it, so that a query made
\* right after returns no body and no node or cell has work left; clearing
\* a second time changes nothing; the tree met at the start of the rebuild
\* loop is the cleared one.
C12_ClearEmptiesEveryList ==
    /\ variant = "quadtree" =>
          LET cleared == QuadClear(objects, Root)
          IN  /\ \A q \in Quads : ObjectsAt(cleared, q) = <<>>
              /\ \A i \in Bodies :
                    GetObjectsForCollisionCheck(cleared, Root, circles[i]) = <<>>
              /\ UpdateOrder(cleared, Root) = <<>>
              /\ QuadClear(cleared, Root) = cleared
              /\ (pc = "integrate" /\ cursor = 1) => objects = cleared
    /\ variant = "unigrid" =>
          LET cleared == ClearCells(cells)
          IN  /\ \A id \in CellIds : ObjectsAt(cleared, id) = <<>>
              /\ GridWork(cleared) = <<>>
              /\ ClearCells(cleared) = cleared

\* a tree that holds a body at its root and another at a node of the
\* deepest level, which clear has to empty
C12_Witness ==
    /\ variant = "quadtree"
    /\ pc = "resolve"
    /\ ObjectsAt(objects, Root) # <<>>
    /\ \E q \in DOMAIN objects : QuadDepth(q) = MAX_DEPTH /\ objects[q] # <<>>

\* the tree at the start of a second step, cleared of the first step's bodies
C12_WitnessCleared ==
    /\ variant = "quadtree"
    /\ pc = "integrate" /\ cursor = 1 /\ steps = 1
    /\ \A q \in Quads : ObjectsAt(objects, q) = <<>>

---------------------------------------------------------------------------
(* C13, C14: Circle::update *)

\* C13: integration sets the acceleration to force / mass, whatever the
\* mass: a non-zero force gives the non-zero acceleration force / mass, for
\* a body of mass 10 as for one of mass 1.
C13_AccelerationIsForceOverMass ==
    \A k \in 1..Len(log) :
        log[k].ev = "integrate" /\ "force" \in DOMAIN log[k] =>
            LET e == log[k]
            IN  /\ e.aPost.acceleration[1] * e.aPre.mass = e.force[1]
                /\ e.aPost.acceleration[2] * e.aPre.mass = e.force[2]

\* the velocity Circle::update has before its deadzone: the old velocity
\* plus acceleration * TIMESTEP
BeforeDeadzone(e) ==
    <<e.aPre.velocity[1] + TruncDiv(e.aPost.acceleration[1], TARGET_FPS),
      e.aPre.velocity[2] + TruncDiv(e.aPost.acceleration[2], TARGET_FPS)>>

\* C14: right after a body is integrated each component of its velocity is
\* zero or at least VELOCITY_THRESHOLD in magnitude: a component that came
\* out below the threshold is zero now, one at or above it is as it came out.
C14_DeadzoneAfterIntegration ==
    \A k \in 1..Len(log) :
        log[k].ev = "integrate" =>
            \A axis \in 1..2 :
                LET was == BeforeDeadzone(log[k])[axis]
                    now == log[k].aPost.velocity[axis]
                IN  /\ now = 0 \/ Abs(now) >= VELOCITY_THRESHOLD
                    /\ Abs(was) < VELOCITY_THRESHOLD => now = 0
                    /\ Abs(was) >= VELOCITY_THRESHOLD => now = was

\* a body integrated with one component below the threshold, one exactly
\* at it
C14_Witness ==
    \E k \in 1..Len(log) :
        /\ log[k].ev = "integrate"
        /\ BeforeDeadzone(log[k]) = <<-4, 5>>
        /\ log[k].aPost.velocity = <<0, 5>>

---------------------------------------------------------------------------
(* C15: the child an insertion descends into *)

\* the children of node q whose square holds the AABB of body c
ChildrenHolding(q, c) ==
    {pos \in QuadPositions : AabbInsideQuad(c, Child(q, pos))}

\* the node reached from q by going, at every node above MAX_DEPTH, into
\* the first child in the order topLeft, topRight, bottomLeft, bottomRight
\* that holds the AABB of body c, and stopping where there is none
RECURSIVE FirstMatchNode(_, _)
FirstMatchNode(q, c) ==
    IF QuadDepth(q) >= MAX_DEPTH \/ ChildrenHolding(q, c) = {} THEN q
    ELSE LET first == CHOOSE pos \in ChildrenHolding(q, c) :
                          \A other \in ChildrenHolding(q, c) : pos <= other
         IN  FirstMatchNode(Child(q, first), c)

\* C15: at every node with children at most one child passes
\* canContainCircle for a body, so that no later test overrides an earlier
\* match, and after the rebuild every body is stored where the descent
\* into the first child that holds its AABB ends.
C15_FirstMatchIsAuthoritative ==
    variant = "quadtree" =>
        /\ \A i \in Bodies : \A q \in Quads :
               QuadDepth(q) < MAX_DEPTH =>
                   Cardinality({pos \in QuadPositions :
                                   CanContainCircle(Child(q, pos), circles[i])}) <= 1
        /\ IndexRebuilt =>
               \A i \in Bodies :
                   circles[i].quad = FirstMatchNode(Root, circles[i])

\* a rebuilt tree with a body that went down to the deepest level and a
\* body that stayed at a node because it lies across two of its children
C15_Witness ==
    /\ IndexRebuilt /\ variant = "quadtree"
    /\ \E i \in Bodies : QuadDepth(circles[i].quad) = MAX_DEPTH
    /\ \E i \in Bodies :
           /\ QuadDepth(circles[i].quad) < MAX_DEPTH
           /\ Cardinality({pos \in QuadPositions :
                  AabbOverlapsQuad(circles[i], Child(circles[i].quad, pos))}) >= 2

---------------------------------------------------------------------------
(* C16: no second impulse *)

\* body x of the pair of test entry e, before and after the test
BodyBefore(e, x) == IF e.a = x THEN e.aPre ELSE e.bPre

BodyAfter(e, x) == IF e.a = x THEN e.aPost ELSE e.bPost

\* the pair of test entry e approaches along the collision normal, bodies
\* taken as the test left them
ApproachingAfter(e) ==
    Vector2DotProduct(Vector2Subtract(e.aPost.velocity, e.bPost.velocity),
                      Vector2Subtract(e.bPost.position, e.aPost.position)) > 0

\* entry m tests, in the same step and in either order, the pair that
\* entry k applied an impulse to, and meets both bodies as entry k left them
RetestOfImpulse(k, m) ==
    /\ k < m
    /\ log[k].ev = "test" /\ log[m].ev = "test"
    /\ log[k].hit
    /\ log[k].a # log[k].b
    /\ {log[m].a, log[m].b} = {log[k].a, log[k].b}
    /\ \A n \in k..m : log[n].ev # "integrate"
    /\ \A x \in {log[k].a, log[k].b} :
           BodyBefore(log[m], x) = BodyAfter(log[k], x)

\* C16: a pair that received an impulse no longer approaches along the
\* collision normal, and a test of the same pair later in the same step
\* that meets both bodies unchanged, in the same or the reverse order,
\* applies no impulse and leaves both bodies as they were.
C16_NoSecondImpulse ==
    /\ \A k \in 1..Len(log) :
           (log[k].ev = "test" /\ log[k].hit /\ log[k].a # log[k].b)
               => ~ApproachingAfter(log[k])
    /\ \A k, m \in 1..Len(log) :
           RetestOfImpulse(k, m) =>
               /\ ~log[m].hit
               /\ log[m].aPost = log[m].aPre
               /\ log[m].bPost = log[m].bPre

---------------------------------------------------------------------------
(* C17: no body is tested against itself *)

\* C17: the narrow phase never runs for a pair (a, a): a candidate that is
\* the body itself is skipped before the overlap test.
C17_NoSelfTest ==
    \A k \in 1..Len(log) : log[k].ev = "test" => log[k].a # log[k].b

---------------------------------------------------------------------------
(* C18: the edge collision is resolved once per body and step *)

\* how often handleEdgeCollision ran for body i in the step in progress
EdgeResolutions(i) ==
    Cardinality({k \in 1..Len(log) : log[k].ev = "edge" /\ log[k].a = i})

\* C18: in a fixed step the edge collision is resolved exactly once for
\* every body: never twice while the step runs, and once when it ends.
C18_EdgeResolvedOnce ==
    \A i \in Bodies :
        /\ EdgeResolutions(i) <= 1
        /\ pc = "end" => EdgeResolutions(i) = 1

---------------------------------------------------------------------------
(* C19: what a spawn request adds *)

\* C19: after k spawn requests the collection holds 25 * k small bodies and
\* floor(k / 10) big ones, and the two counters say so; every request, the
\* ones that spawn a big body and the ones after them included, added
\* exactly 25 small bodies.
C19_SpawnAddsTwentyFive ==
    pc \in {"running", "paused"} =>
        /\ CountOf(circles, FALSE)
              = SMALL_CIRCLES_TO_SPAWN_SIMULTANEOUSLY * Len(log)
        /\ CountOf(circles, TRUE)
              = Len(log) \div NUMBER_OF_PRESSES_UNTIL_BIG_CIRCLE_SPAWNS
        /\ counters.numberOfSmallCirclesPresent = CountOf(circles, FALSE)
        /\ counters.numberOfBigCirclesPresent = CountOf(circles, TRUE)
        /\ \A k \in 1..Len(log) :
               log[k].sizeAfter - log[k].sizeBefore
                   = SMALL_CIRCLES_TO_SPAWN_SIMULTANEOUSLY
                         + (IF log[k].big THEN 1 ELSE 0)

---------------------------------------------------------------------------
(* C20: the back-pointers of the quadtree program *)

\* C20: in the quadtree program, from the end of the rebuild loop to the end
\* of the step, every body's Circle::quad is a node of the tree and not
\* nullptr, that node's list holds the body once and no other list holds
\* it, and the lists hold nothing but bodies of the collection.
C20_BackPointerDesignatesNode ==
    (variant = "quadtree" /\ pc \in {"resolve", "end"}) =>
        /\ \A i \in Bodies :
               /\ circles[i].quad # Null
               /\ circles[i].quad \in Quads
               /\ Occurrences(ObjectsAt(objects, circles[i].quad), i) = 1
               /\ CountIn(objects, DOMAIN objects, i) = 1
        /\ \A q \in DOMAIN objects : Elems(objects[q]) \subseteq Bodies

\* the end of a second step, Quad::update having gone through every body,
\* with the bodies at two nodes, one of them of the deepest level
C20_Witness ==
    /\ variant = "quadtree" /\ pc = "end" /\ steps >= 1
    /\ \A i \in Bodies : EdgeResolutions(i) = 1
    /\ \E i, j \in Bodies :
           /\ circles[i].quad # circles[j].quad
           /\ circles[i].quad # Null
           /\ QuadDepth(circles[i].quad) = MAX_DEPTH

====
